---- MODULE Spec2Model ----
(***************************************************************************)
(* The editor page (SlateEditor) and the image block (ImageEditor) as a    *)
(* state machine: the Slate editor object (children, selection,            *)
(* operations, history), the React state of the page (value,               *)
(* filterTextValue, the render whose closures are live), localStorage's    *)
(* 'content' key, the uploads in flight, the pending timeouts and the      *)
(* scroll listeners on window.                                             *)
(*                                                                         *)
(* Paths are 1-based here: block i of the model is Slate path [i-1].  The  *)
(* Document is a flat sequence of blocks, each with one text child; a      *)
(* selection is collapsed, <<block, offset>>, or Null.                     *)
(***************************************************************************)
EXTENDS Integers, Sequences, FiniteSets, TLC

\* ------------------------------------------------------------------ bounds
MaxBlocks == 3
MaxText == 1
MaxUploads == 1
MaxEdits == 1

\* ------------------------------------------------------------- JS values
Null == <<>>
JUndefined == [k |-> "undefined", v |-> 0]
JNull == [k |-> "null", v |-> 0]
DataURI(f) == [k |-> "data", v |-> f]
Url(f) == [k |-> "url", v |-> f]

Chars == {"/", "a"}

\* ------------------------------------------------------------------ nodes
Node(id, type, isVoid, text, dataSrc, src) ==
  [id |-> id, type |-> type, isVoid |-> isVoid, text |-> text,
   dataSrc |-> dataSrc, src |-> src]

NoNode == Node(0, "none", "undefined", <<>>, JUndefined, JUndefined)

\* onPlusButtonClick's node: { id: v4(), type: paragraph, isVoid: false, children: [{text: ''}] }
PlusNode(id) == Node(id, "paragraph", "false", <<>>, JUndefined, JUndefined)

\* onKeyDown's newLine: { id: v4(), type: 'paragraph', children: [{text: ''}] }
NewLine(id) == Node(id, "paragraph", "undefined", <<>>, JUndefined, JUndefined)

\* onUpload's image: the placeholder carrying the local preview
PlaceholderImage(id, f) == Node(id, "image", "true", <<>>, DataURI(f), JNull)

\* onUpload's newImage: { ...image, src: url, 'data-src': null }
CommittedImage(image, f) == [image EXCEPT !.src = Url(f), !.dataSrc = JNull]

\* ImageEditor's three renderings: dataSrc truthy, else element.src truthy, else the upload form
IsUploading(n) == n.type = "image" /\ n.dataSrc.k = "data"
IsCommitted(n) == n.type = "image" /\ n.dataSrc.k # "data" /\ n.src.k = "url"
IsEmptyImage(n) == n.type = "image" /\ n.dataSrc.k # "data" /\ n.src.k # "url"

\* the editor's isVoid (withImages): image blocks are void
IsVoid(n) == n.type = "image"

\* the default template and a document a previous session left in storage
DEFAULT_STATE == << Node(1, "paragraph", "undefined", <<>>, JUndefined, JUndefined) >>

StoredDoc ==
  << Node(1, "paragraph", "undefined", <<"/">>, JUndefined, JUndefined),
     Node(2, "image", "true", <<>>, JUndefined, JUndefined) >>

FirstFreshId == Len(StoredDoc) + 1

\* ------------------------------------------------------------------- JSON
\* A JSON value of a serialized node: a string (of a uuid, a type name, a data
\* URI or a URL), a literal (true, false, null) or the children array.
Tok(t, n, cs) == [t |-> t, n |-> n, cs |-> cs]

EncodeSrc(x) ==
  CASE x.k = "undefined" -> Tok("undefined", 0, <<>>)
    [] x.k = "null" -> Tok("null", 0, <<>>)
    [] OTHER -> Tok("str", x.v, <<x.k>>)

DecodeSrc(t) ==
  CASE t.t = "undefined" -> JUndefined
    [] t.t = "null" -> JNull
    [] OTHER -> [k |-> t.cs[1], v |-> t.n]

\* a stringify that leaves out the null properties too
StringifyNodeDroppingNull(n) ==
  LET all == << [key |-> "id", tok |-> Tok("str", n.id, <<>>)],
                [key |-> "type", tok |-> Tok("str", 0, <<n.type>>)],
                [key |-> "isVoid", tok |-> Tok(n.isVoid, 0, <<>>)],
                [key |-> "children", tok |-> Tok("children", 0, n.text)],
                [key |-> "data-src", tok |-> EncodeSrc(n.dataSrc)],
                [key |-> "src", tok |-> EncodeSrc(n.src)] >>
      kept(p) == p.tok.t \notin {"undefined", "null"}
  IN SelectSeq(all, kept)

\* JSON.stringify of one element: a property whose value is undefined is left
\* out, one whose value is null is kept
StringifyNode(n) ==
  LET all == << [key |-> "id", tok |-> Tok("str", n.id, <<>>)],
                [key |-> "type", tok |-> Tok("str", 0, <<n.type>>)],
                [key |-> "isVoid", tok |-> Tok(n.isVoid, 0, <<>>)],
                [key |-> "children", tok |-> Tok("children", 0, n.text)],
                [key |-> "data-src", tok |-> EncodeSrc(n.dataSrc)],
                [key |-> "src", tok |-> EncodeSrc(n.src)] >>
      kept(p) == p.tok.t # "undefined"
  IN SelectSeq(all, kept)

\* JSON.stringify(newValue)
JSONStringify(doc) ==
  IF doc = <<>> THEN <<>> ELSE [i \in 1..Len(doc) |-> StringifyNode(doc[i])]

\* the value of property key of a parsed object: undefined when the key is absent
Property(obj, key) ==
  IF \E i \in 1..Len(obj) : obj[i].key = key
  THEN (CHOOSE p \in {obj[i] : i \in 1..Len(obj)} : p.key = key).tok
  ELSE Tok("undefined", 0, <<>>)

ParseNode(obj) ==
  Node(Property(obj, "id").n,
       Property(obj, "type").cs[1],
       Property(obj, "isVoid").t,
       Property(obj, "children").cs,
       DecodeSrc(Property(obj, "data-src")),
       DecodeSrc(Property(obj, "src")))

\* JSON.parse(content)
JSONParse(content) ==
  IF content = <<>> THEN <<>> ELSE [i \in 1..Len(content) |-> ParseNode(content[i])]

\* localStorage: whether the 'content' key is set, and its string
NoContent == [has |-> FALSE, content |-> <<>>]
Content(c) == [has |-> TRUE, content |-> c]

\* getInitialData: JSON.parse(content) when the key holds content, else the default
getInitialData(store) ==
  IF store.has THEN JSONParse(store.content) ELSE DEFAULT_STATE

\* ----------------------------------------------------------- the editor
\* A Slate operation.  path is the block, node the node inserted or removed (or
\* the block's properties before a set_node, newNode those after it), offset and
\* text the place and the characters of a text operation or the position of a
\* split.
Op(type, path, node, newNode, offset, text) ==
  [type |-> type, path |-> path, node |-> node, newNode |-> newNode,
   offset |-> offset, text |-> text]

InsertNodeOp(path, node) == Op("insert_node", path, node, NoNode, 0, <<>>)
RemoveNodeOp(path, node) == Op("remove_node", path, node, NoNode, 0, <<>>)
InsertTextOp(path, offset, text) == Op("insert_text", path, NoNode, NoNode, offset, text)
RemoveTextOp(path, offset, text) == Op("remove_text", path, NoNode, NoNode, offset, text)
SetNodeOp(path, node, newNode) == Op("set_node", path, node, newNode, 0, <<>>)
SplitNodeOp(path, position) == Op("split_node", path, NoNode, NoNode, position, <<>>)
MergeNodeOp(path, position) == Op("merge_node", path, NoNode, NoNode, position, <<>>)
SetSelectionOp == Op("set_selection", 0, NoNode, NoNode, 0, <<>>)

\* Operation.inverse
Inverse(op) ==
  CASE op.type = "insert_node" -> [op EXCEPT !.type = "remove_node"]
    [] op.type = "remove_node" -> [op EXCEPT !.type = "insert_node"]
    [] op.type = "insert_text" -> [op EXCEPT !.type = "remove_text"]
    [] op.type = "remove_text" -> [op EXCEPT !.type = "insert_text"]
    [] op.type = "set_node" -> [op EXCEPT !.node = op.newNode, !.newNode = op.node]
    [] op.type = "split_node" -> MergeNodeOp(op.path + 1, op.offset)
    [] op.type = "merge_node" -> SplitNodeOp(op.path - 1, op.offset)
    [] OTHER -> op

InsertAt(seq, i, x) == SubSeq(seq, 1, i - 1) \o <<x>> \o SubSeq(seq, i, Len(seq))
RemoveAt(seq, i) == SubSeq(seq, 1, i - 1) \o SubSeq(seq, i + 1, Len(seq))

\* the children after an operation (GeneralTransforms.transform, the tree)
ApplyToChildren(ch, op) ==
  CASE op.type = "insert_node" -> InsertAt(ch, op.path, op.node)
    [] op.type = "remove_node" -> RemoveAt(ch, op.path)
    [] op.type = "insert_text" ->
         [ch EXCEPT ![op.path].text =
            SubSeq(@, 1, op.offset) \o op.text \o SubSeq(@, op.offset + 1, Len(@))]
    [] op.type = "remove_text" ->
         [ch EXCEPT ![op.path].text =
            SubSeq(@, 1, op.offset) \o SubSeq(@, op.offset + Len(op.text) + 1, Len(@))]
    [] op.type = "set_node" -> [ch EXCEPT ![op.path] = op.newNode]
    [] op.type = "split_node" ->
         \* both halves keep the block's properties, its id included
         LET b == ch[op.path]
         IN SubSeq(ch, 1, op.path - 1)
            \o << [b EXCEPT !.text = SubSeq(b.text, 1, op.offset)],
                  [b EXCEPT !.text = SubSeq(b.text, op.offset + 1, Len(b.text))] >>
            \o SubSeq(ch, op.path + 1, Len(ch))
    [] op.type = "merge_node" ->
         LET a == ch[op.path - 1]
             b == ch[op.path]
         IN SubSeq(ch, 1, op.path - 2)
            \o << [a EXCEPT !.text = a.text \o b.text] >>
            \o SubSeq(ch, op.path + 1, Len(ch))
    [] OTHER -> ch

\* the selection after an operation (GeneralTransforms.transform, the points);
\* after is the tree the operation left
ApplyToSelection(sel, op, after) ==
  IF sel = Null THEN Null
  ELSE LET p == sel[1]
           o == sel[2]
       IN CASE op.type = "insert_node" -> IF p >= op.path THEN <<p + 1, o>> ELSE sel
            [] op.type = "remove_node" ->
                 IF p > op.path THEN <<p - 1, o>>
                 ELSE IF p < op.path THEN sel
                 \* the point was in the removed node: the next text if there is
                 \* one, else the end of the previous one, else no selection
                 ELSE IF op.path <= Len(after) THEN <<op.path, 0>>
                 ELSE IF op.path > 1 THEN <<op.path - 1, Len(after[op.path - 1].text)>>
                 ELSE Null
            [] op.type = "insert_text" ->
                 IF p = op.path /\ op.offset <= o THEN <<p, o + Len(op.text)>> ELSE sel
            [] op.type = "remove_text" ->
                 IF p = op.path /\ op.offset <= o
                 THEN <<p, o - (IF o - op.offset < Len(op.text) THEN o - op.offset ELSE Len(op.text))>>
                 ELSE sel
            [] op.type = "split_node" ->
                 IF p > op.path THEN <<p + 1, o>>
                 ELSE IF p = op.path /\ op.offset <= o THEN <<p + 1, o - op.offset>>
                 ELSE sel
            [] op.type = "merge_node" ->
                 IF p > op.path THEN <<p - 1, o>>
                 ELSE IF p = op.path THEN <<p - 1, o + op.offset>>
                 ELSE sel
            [] OTHER -> sel

\* slate-history: shouldSave, shouldMerge
shouldSave(op) == op.type # "set_selection"

shouldMerge(op, prev) ==
  \/ /\ op.type = "insert_text" /\ prev.type = "insert_text"
     /\ op.offset = prev.offset + Len(prev.text) /\ op.path = prev.path
  \/ /\ op.type = "remove_text" /\ prev.type = "remove_text"
     /\ op.offset + Len(op.text) = prev.offset /\ op.path = prev.path

\* withHistory's e.apply: the undo batches after op, applied while saving
SaveToHistory(e, op) ==
  LET undos == e.history.undos
      n == Len(undos)
      merge == IF n = 0 THEN FALSE
               ELSE IF Len(e.operations) # 0 THEN TRUE
               ELSE shouldMerge(op, undos[n][Len(undos[n])])
  IN IF merge
     THEN [undos |-> [undos EXCEPT ![n] = Append(@, op)], redos |-> <<>>]
     ELSE [undos |-> Append(undos, <<op>>), redos |-> <<>>]

\* editor.apply(op): the tree, the selection, editor.operations and, when the
\* editor is saving, the history
Apply(e, op, saving) ==
  LET after == ApplyToChildren(e.children, op)
  IN [children |-> after,
      selection |-> ApplyToSelection(e.selection, op, after),
      operations |-> Append(e.operations, op.type),
      history |-> IF saving /\ shouldSave(op) THEN SaveToHistory(e, op) ELSE e.history]

NewEditor(doc) ==
  [children |-> doc, selection |-> Null, operations |-> <<>>,
   history |-> [undos |-> <<>>, redos |-> <<>>]]

\* whether the selection points into the tree (a stale point does not)
SelectionInTree(e) ==
  e.selection # Null => /\ e.selection[1] \in 1..Len(e.children)
                        /\ e.selection[2] \in 0..Len(e.children[e.selection[1]].text)

\* Transforms.select: a set_selection operation when the selection changes
select(e, pt) ==
  IF e.selection = pt THEN e
  ELSE [Apply(e, SetSelectionOp, TRUE) EXCEPT !.selection = pt]

\* Transforms.removeNodes(editor): no `at`, so the block holding the selection
removeNodes(e) ==
  IF e.selection = Null THEN e
  ELSE Apply(e, RemoveNodeOp(e.selection[1], e.children[e.selection[1]]), TRUE)

\* Transforms.removeNodes(editor, { match: image, at: path })
removeNodesAt(e, path) ==
  IF e.children[path].type = "image"
  THEN Apply(e, RemoveNodeOp(path, e.children[path]), TRUE)
  ELSE e

\* Transforms.insertNodes at a point: the block there is split when the point is
\* inside its text, and the node goes after the block when the point is at its
\* end, before it otherwise
insertNodesAt(e, node, pt, sel) ==
  LET b == e.children[pt[1]]
      inside == ~IsVoid(b) /\ 0 < pt[2] /\ pt[2] < Len(b.text)
      e1 == IF inside THEN Apply(e, SplitNodeOp(pt[1], pt[2]), TRUE) ELSE e
      at == IF inside \/ pt[2] = Len(b.text) THEN pt[1] + 1 ELSE pt[1]
      e2 == Apply(e1, InsertNodeOp(at, node), TRUE)
  IN IF sel THEN select(e2, <<at, Len(node.text)>>) ELSE e2

\* Transforms.insertNodes(editor, node): no `at`, so the selection, or the end of
\* the document without one; the inserted node is then selected
insertNodes(e, node) ==
  IF e.selection # Null THEN insertNodesAt(e, node, e.selection, TRUE)
  ELSE IF Len(e.children) > 0
       THEN insertNodesAt(e, node,
              <<Len(e.children), Len(e.children[Len(e.children)].text)>>, TRUE)
       ELSE select(Apply(e, InsertNodeOp(1, node), TRUE), <<1, Len(node.text)>>)

\* editor.insertText(text) at the collapsed selection; nothing in a void block
insertText(e, text) ==
  IF e.selection = Null \/ IsVoid(e.children[e.selection[1]]) THEN e
  ELSE Apply(e, InsertTextOp(e.selection[1], e.selection[2], text), TRUE)

\* editor.deleteBackward('character') inside a text
deleteBackward(e) ==
  LET p == e.selection[1]
      o == e.selection[2]
  IN IF o = 0 THEN e
     ELSE Apply(e, RemoveTextOp(p, o - 1, SubSeq(e.children[p].text, o, o)), TRUE)

\* toggleBlock(editor, type, { isVoid: false, ... }): the block at the selection
\* takes the type
toggleBlock(e, type) ==
  LET p == e.selection[1]
      b == e.children[p]
  IN Apply(e, SetNodeOp(p, b, [b EXCEPT !.type = type]), TRUE)

RECURSIVE ApplyAll(_, _)
ApplyAll(e, ops) ==
  IF ops = <<>> THEN e ELSE ApplyAll(Apply(e, Head(ops), FALSE), Tail(ops))

Reverse(seq) == [i \in 1..Len(seq) |-> seq[Len(seq) + 1 - i]]

\* slate-history's e.undo: the last batch's inverses, last first, without saving
undo(e) ==
  LET undos == e.history.undos
      n == Len(undos)
      batch == undos[n]
      e1 == ApplyAll(e, Reverse([i \in 1..Len(batch) |-> Inverse(batch[i])]))
  IN IF n = 0 THEN e
     ELSE [e1 EXCEPT !.history = [undos |-> SubSeq(undos, 1, n - 1),
                                  redos |-> Append(e.history.redos, batch)]]

\* slate-history's e.redo
redo(e) ==
  LET redos == e.history.redos
      n == Len(redos)
      e1 == ApplyAll(e, redos[n])
  IN IF n = 0 THEN e
     ELSE [e1 EXCEPT !.history = [undos |-> Append(e.history.undos, redos[n]),
                                  redos |-> SubSeq(redos, 1, n - 1)]]

\* a test that any operation passes
AnyOperation(ops) == Len(ops) > 0

\* onChange's isASTChanged: editor.operations.some((op) => op.type !== 'set_selection')
isASTChanged(ops) == \E i \in 1..Len(ops) : ops[i] # "set_selection"

\* ------------------------------------------------------------------ state
VARIABLES
  editor,               \* the Slate editor: children, selection, operations, history
  value,                \* useState value
  filterTextValue,      \* useState filterTextValue
  render,               \* the render of SlateEditor that is current
  renderElementRender,  \* the render whose onPlusButtonClick renderElement holds
                        \* (renders are told apart as far as a handler can:
                        \* the first, the current one, or a stale one)
  storage,              \* localStorage 'content'
  persist,              \* what became of onChange's last write to storage
  changeOps,            \* the operations the step's onChange saw, if it ran
  uploads,              \* per upload: where onUpload stands, and its image
  nextId,               \* the next v4()
  mounted,              \* whether the page is mounted
  unhandled,            \* the errors no handler caught
  elementsListOpen,     \* the dropdown's opacity is '1'
  scrollListeners,      \* the renders whose showElementsList listens to scroll
  timers,               \* the pending timeouts, in order
  edits                 \* the edits made so far

vars == << editor, value, filterTextValue, render, renderElementRender, storage,
           persist, changeOps, uploads, nextId, mounted, unhandled,
           elementsListOpen, scrollListeners, timers, edits >>

Uploads == 1..MaxUploads
\* D is the Document onUpload found when it put the placeholder
IdleUpload == [pc |-> "idle", image |-> NoNode, D |-> <<>>]

Init ==
  /\ storage \in {NoContent, Content(JSONStringify(StoredDoc))}
  /\ value = getInitialData(storage)
  /\ editor = NewEditor(value)
  /\ filterTextValue = <<>>
  /\ render = "first"
  /\ renderElementRender = "first"
  /\ persist = "none"
  /\ changeOps = <<>>
  /\ uploads = [u \in Uploads |-> IdleUpload]
  /\ nextId = FirstFreshId
  /\ mounted = TRUE
  /\ unhandled = {}
  /\ elementsListOpen = FALSE
  /\ scrollListeners = {}
  /\ timers = <<>>
  /\ edits = 0

CanEdit == edits < MaxEdits
Fits(e) == /\ Len(e.children) <= MaxBlocks
           /\ \A i \in 1..Len(e.children) : Len(e.children[i].text) <= MaxText

\* the text Editor.string reads at the selection's anchor
TextAtSelection == editor.children[editor.selection[1]].text
HasSelection == editor.selection # Null /\ SelectionInTree(editor)

\* A state change of SlateEditor renders it again, with new showElementsList
\* and hideElementsList closures: the render that was current, unless it is the
\* first, is from then on a stale one, which no handler's hideElementsList
\* names.  renderElement is made again when its dependencies changed.
Aged(r) == IF r = "current" THEN "stale" ELSE r

Page(r, rer, listeners, pending) ==
  [render |-> r, renderElementRender |-> rer, scrollListeners |-> listeners,
   timers |-> pending]

Rerender(pg, remade) ==
  Page("current",
       IF remade THEN "current" ELSE Aged(pg.renderElementRender),
       {Aged(r) : r \in pg.scrollListeners},
       IF pg.timers = <<>> THEN <<>>
       ELSE [i \in 1..Len(pg.timers) |-> [pg.timers[i] EXCEPT !.r = Aged(@)]])

\* a write whose failure leaves onChange as an error
PersistRethrowing(doc, ok) ==
  IF ok THEN [storage |-> Content(JSONStringify(doc)), persist |-> "stored", thrown |-> FALSE]
  ELSE [storage |-> storage, persist |-> "caught", thrown |-> TRUE]

\* the try/catch of onChange around JSON.stringify and localStorage.setItem:
\* what becomes of storage, and whether an error leaves onChange
Persist(doc, ok) ==
  IF ok THEN [storage |-> Content(JSONStringify(doc)), persist |-> "stored", thrown |-> FALSE]
  ELSE [storage |-> storage, persist |-> "caught", thrown |-> FALSE]

\* What follows a handler that left the editor as e and the list as given: the
\* page renders again if the handler changed filterTextValue; then, in the
\* microtask Slate queued on the handler's first operation, onChange(e.children)
\* runs (setValue, which renders again when the children changed, and the write
\* to storage when isASTChanged) and editor.operations is emptied.  The write
\* may fail (ok).  Once the page is unmounted onChange is no longer called.
onChange(e, open, filter, listeners, pending, errors) ==
  \E remade1, remade2, ok \in BOOLEAN :
    LET changed1 == filter # filterTextValue
        called == mounted /\ e.operations # <<>>
        changed2 == called /\ value # e.children
        writes == called /\ isASTChanged(e.operations)
        pg0 == Page(render, renderElementRender, listeners, pending)
        pg1 == IF changed1 THEN Rerender(pg0, remade1) ELSE pg0
        pg2 == IF changed2 THEN Rerender(pg1, remade2) ELSE pg1
        res == Persist(e.children, ok)
    IN /\ remade1 => changed1
       /\ remade2 => changed2
       /\ ~ok => writes
       /\ elementsListOpen' = open
       /\ filterTextValue' = filter
       /\ render' = pg2.render
       /\ renderElementRender' = pg2.renderElementRender
       /\ scrollListeners' = pg2.scrollListeners
       /\ timers' = pg2.timers
       /\ value' = IF called THEN e.children ELSE value
       /\ changeOps' = IF called THEN e.operations ELSE <<>>
       /\ storage' = IF writes THEN res.storage ELSE storage
       /\ persist' = IF writes THEN res.persist ELSE persist
       /\ IF writes /\ res.thrown
          THEN /\ unhandled' = errors \cup {"onChange"}
               /\ editor' = e
          ELSE /\ unhandled' = errors
               /\ editor' = [e EXCEPT !.operations = <<>>]

\* a handler that leaves the list as it is
onChangeOnly(e) ==
  onChange(e, elementsListOpen, filterTextValue, scrollListeners, timers, unhandled)

\* hideElementsList of render r, then what follows the handler:
\* removeEventListener gets render r's showElementsList
hideElementsList(e, r) ==
  onChange(e, FALSE, <<>>, scrollListeners \ {r}, timers, unhandled)

\* ---------------------------------------------------------------- actions
\* a click into the text: the selection moves
Select(p, o) ==
  /\ mounted
  /\ p \in 1..Len(editor.children)
  /\ o \in 0..Len(editor.children[p].text)
  /\ editor.selection # <<p, o>>
  /\ onChangeOnly(select(editor, <<p, o>>))
  /\ UNCHANGED << uploads, nextId, mounted, edits >>

\* a character key: onKeyDown hides nothing, Slate inserts the character
InsertText(ch) ==
  /\ mounted /\ CanEdit /\ HasSelection
  /\ ~IsVoid(editor.children[editor.selection[1]])
  /\ Fits(insertText(editor, <<ch>>))
  /\ onChangeOnly(insertText(editor, <<ch>>))
  /\ edits' = edits + 1
  /\ UNCHANGED << uploads, nextId, mounted >>

\* onKeyDown, Backspace inside a text: nothing is hidden, Slate deletes backward
KeyDownBackspaceText ==
  /\ mounted /\ CanEdit /\ HasSelection
  /\ Len(TextAtSelection) # 0
  /\ editor.selection[2] > 0
  /\ onChangeOnly(deleteBackward(editor))
  /\ edits' = edits + 1
  /\ UNCHANGED << uploads, nextId, mounted >>

\* onKeyDown (the first render's closure: useCallback with no dependencies) for
\* a key that only hides the list: Backspace in the empty first paragraph,
\* ArrowLeft, ArrowRight, Meta
KeyDownHide(key) ==
  /\ mounted /\ HasSelection
  /\ key = "Backspace" => /\ Len(TextAtSelection) = 0
                          /\ editor.selection[1] = 1
                          /\ ~IsVoid(editor.children[1])
  /\ hideElementsList(editor, "first")
  /\ UNCHANGED << uploads, nextId, mounted, edits >>

\* the block types of IGNORED_SOFT_BREAK_ELEMS (lists; none is a block of this model)
IGNORED_SOFT_BREAK_ELEMS == {"bulleted-list", "numbered-list", "list-item"}

\* onKeyDown, Enter: the list is hidden; with shift a line break is typed,
\* without it newLine is inserted at the selection
KeyDownEnter(shiftKey) ==
  /\ mounted /\ CanEdit /\ HasSelection
  /\ LET e == IF shiftKey THEN insertText(editor, <<"\n">>)
              ELSE IF editor.children[editor.selection[1]].type
                        \notin IGNORED_SOFT_BREAK_ELEMS
              THEN insertNodes(editor, NewLine(nextId))
              ELSE editor
     IN /\ Fits(e)
        /\ hideElementsList(e, "first")
  /\ nextId' = IF shiftKey THEN nextId ELSE nextId + 1
  /\ edits' = edits + 1
  /\ UNCHANGED << uploads, mounted >>

\* onKeyUp: a lone '/' opens the closed list; an open list filters by the text
KeyUp ==
  /\ mounted /\ HasSelection
  /\ IF ~elementsListOpen
     THEN /\ TextAtSelection = <<"/">>
          /\ onChange(editor, TRUE, filterTextValue, scrollListeners, timers, unhandled)
     ELSE onChange(editor, TRUE, TextAtSelection, scrollListeners, timers, unhandled)
  /\ UNCHANGED << uploads, nextId, mounted, edits >>

\* handleBlockClick (the current render's): toggleBlock, then hideElementsList
handleBlockClick(type) ==
  /\ mounted /\ CanEdit /\ HasSelection
  /\ elementsListOpen
  /\ editor.children[editor.selection[1]].type \notin {type, "image"}
  /\ type = "image" => TextAtSelection = <<>>
  /\ hideElementsList(toggleBlock(editor, type), render)
  /\ edits' = edits + 1
  /\ UNCHANGED << uploads, nextId, mounted >>

\* OutsideClick's onClose: the current render's hideElementsList
OutsideClick ==
  /\ mounted
  /\ hideElementsList(editor, render)
  /\ UNCHANGED << uploads, nextId, mounted, edits >>

\* onPlusButtonClick(element) of the render renderElement holds: a paragraph is
\* inserted at the point after the element (at the selection when there is no
\* such point), and the focus timeout is set
onPlusButtonClick(i) ==
  /\ mounted /\ CanEdit
  /\ i \in 1..Len(editor.children)
  /\ LET after == IF i < Len(editor.children) THEN <<i + 1, 0>> ELSE Null
         e == IF after # Null
              THEN insertNodesAt(editor, PlusNode(nextId), after, FALSE)
              ELSE insertNodes(editor, PlusNode(nextId))
     IN /\ after = Null => SelectionInTree(editor)
        /\ Fits(e)
        /\ onChange(e, elementsListOpen, filterTextValue, scrollListeners,
                    Append(timers, [kind |-> "focus", after |-> after,
                                    r |-> renderElementRender]),
                    unhandled)
  /\ nextId' = nextId + 1
  /\ edits' = edits + 1
  /\ UNCHANGED << uploads, mounted >>

\* the focus timeout: Transforms.select(editor, after) and ReactEditor.focus,
\* then the selection timeout is set; select throws when there was no point
\* after the element, focus when the page is gone
FocusTimeout ==
  /\ timers # <<>> /\ Head(timers).kind = "focus"
  /\ LET t == Head(timers)
     IN IF t.after = Null
        THEN onChange(editor, elementsListOpen, filterTextValue, scrollListeners,
                      Tail(timers), unhandled \cup {"focusTimeout"})
        ELSE IF mounted
        THEN onChange(select(editor, t.after), elementsListOpen, filterTextValue,
                      scrollListeners,
                      Append(Tail(timers), [t EXCEPT !.kind = "selection"]),
                      unhandled)
        ELSE onChange(select(editor, t.after), elementsListOpen, filterTextValue,
                      scrollListeners, Tail(timers),
                      unhandled \cup {"focusTimeout"})
  /\ UNCHANGED << uploads, nextId, mounted, edits >>

\* the selection timeout: showElementsList() of the click's render, which then
\* listens to scroll; without the page the dropdown's ref is null
SelectionTimeout ==
  /\ timers # <<>> /\ Head(timers).kind = "selection"
  /\ IF mounted
     THEN onChange(editor, TRUE, filterTextValue,
                   scrollListeners \cup {Head(timers).r}, Tail(timers), unhandled)
     ELSE onChange(editor, elementsListOpen, filterTextValue, scrollListeners,
                   Tail(timers), unhandled \cup {"selectionTimeout"})
  /\ UNCHANGED << uploads, nextId, mounted, edits >>

\* a scroll of the window: every registered showElementsList runs
Scroll ==
  /\ scrollListeners # {}
  /\ IF mounted
     THEN onChange(editor, TRUE, filterTextValue, scrollListeners, timers, unhandled)
     ELSE onChange(editor, elementsListOpen, filterTextValue, scrollListeners,
                   timers, unhandled \cup {"scroll"})
  /\ UNCHANGED << uploads, nextId, mounted, edits >>

\* ImageEditor's onDelete, offered by an image that is not uploading
onDelete(i) ==
  /\ mounted /\ CanEdit
  /\ i \in 1..Len(editor.children)
  /\ editor.children[i].type = "image" /\ ~IsUploading(editor.children[i])
  /\ onChangeOnly(removeNodesAt(editor, i))
  /\ edits' = edits + 1
  /\ UNCHANGED << uploads, nextId, mounted >>

\* onUpload(file) is called from the upload form of an empty image block and
\* waits for toBase64
onUpload(u) ==
  /\ mounted
  /\ \E i \in 1..Len(editor.children) : IsEmptyImage(editor.children[i])
  /\ uploads[u].pc = "idle"
  /\ \A v \in Uploads : v < u => uploads[v].pc # "idle"
  /\ uploads' = [uploads EXCEPT ![u].pc = "reading"]
  /\ onChangeOnly(editor)
  /\ UNCHANGED << nextId, mounted, edits >>

\* toBase64 resolved: removeNodes(editor), insertNodes(editor, [image]), then
\* onUpload waits for uploadToCloudinary
UploadPreview(u) ==
  /\ SelectionInTree(editor)
  /\ uploads[u].pc = "reading"
  /\ LET image == PlaceholderImage(nextId, u)
         e == insertNodes(removeNodes(editor), image)
     IN /\ Fits(e)
        /\ onChangeOnly(e)
        /\ uploads' = [uploads EXCEPT ![u] = [pc |-> "uploading", image |-> image,
                                              D |-> editor.children]]
  /\ nextId' = nextId + 1
  /\ UNCHANGED << mounted, edits >>

\* uploadToCloudinary resolved: removeNodes(editor), insertNodes(editor, [newImage])
UploadCommit(u) ==
  /\ SelectionInTree(editor)
  /\ uploads[u].pc = "uploading"
  /\ LET e == insertNodes(removeNodes(editor), CommittedImage(uploads[u].image, u))
     IN /\ Fits(e)
        /\ onChangeOnly(e)
  /\ uploads' = [uploads EXCEPT ![u].pc = "done"]
  /\ UNCHANGED << nextId, mounted, edits >>

\* uploadToCloudinary rejected: the await throws and nothing in onUpload catches
UploadFail(u) ==
  /\ uploads[u].pc = "uploading"
  /\ uploads' = [uploads EXCEPT ![u].pc = "failed"]
  /\ onChange(editor, elementsListOpen, filterTextValue, scrollListeners, timers,
              unhandled \cup {"onUpload"})
  /\ UNCHANGED << nextId, mounted, edits >>

\* the undo and redo hotkeys (withHistory)
Undo ==
  /\ mounted /\ CanEdit
  /\ Len(editor.history.undos) > 0
  /\ onChangeOnly(undo(editor))
  /\ edits' = edits + 1
  /\ UNCHANGED << uploads, nextId, mounted >>

Redo ==
  /\ mounted
  /\ Len(editor.history.redos) > 0
  /\ onChangeOnly(redo(editor))
  /\ UNCHANGED << uploads, nextId, mounted, edits >>

\* the page is unmounted while an upload or a timeout is in flight, which stays
\* in flight
Unmount ==
  /\ mounted
  /\ \/ timers # <<>>
     \/ \E u \in Uploads : uploads[u].pc \in {"reading", "uploading"}
  /\ mounted' = FALSE
  /\ changeOps' = <<>>
  /\ UNCHANGED << editor, value, filterTextValue, render, renderElementRender,
                  storage, persist, uploads, nextId, unhandled,
                  elementsListOpen, scrollListeners, timers, edits >>

\* the page is loaded again: a new editor from getInitialData(); the old page's
\* timeouts, listeners and uploads are gone with it
Reload ==
  /\ value' = getInitialData(storage)
  /\ editor' = NewEditor(value')
  /\ filterTextValue' = <<>>
  /\ render' = "first"
  /\ renderElementRender' = "first"
  /\ persist' = "none"
  /\ changeOps' = <<>>
  /\ uploads' = [u \in Uploads |->
                   IF uploads[u].pc = "idle" THEN IdleUpload
                   ELSE [IdleUpload EXCEPT !.pc = "gone"]]
  /\ mounted' = TRUE
  /\ unhandled' = {}
  /\ elementsListOpen' = FALSE
  /\ scrollListeners' = {}
  /\ timers' = <<>>
  /\ UNCHANGED << storage, nextId, edits >>

Next ==
  \/ \E p \in 1..MaxBlocks, o \in 0..MaxText : Select(p, o)
  \/ \E ch \in Chars : InsertText(ch)
  \/ KeyDownBackspaceText
  \/ \E key \in {"Backspace", "Meta"} : KeyDownHide(key)
  \/ \E shiftKey \in BOOLEAN : KeyDownEnter(shiftKey)
  \/ KeyUp
  \/ \E type \in {"heading", "image"} : handleBlockClick(type)
  \/ OutsideClick
  \/ \E i \in 1..MaxBlocks : onPlusButtonClick(i)
  \/ FocusTimeout
  \/ SelectionTimeout
  \/ Scroll
  \/ \E i \in 1..MaxBlocks : onDelete(i)
  \/ \E u \in Uploads : onUpload(u)
  \/ \E u \in Uploads : UploadPreview(u)
  \/ \E u \in Uploads : UploadCommit(u)
  \/ \E u \in Uploads : UploadFail(u)
  \/ Undo
  \/ Redo
  \/ Unmount
  \/ Reload

Spec == Init /\ [][Next]_vars

\* ----------------------------------------------------------------- claims
Blocks(e) == {e.children[i] : i \in 1..Len(e.children)}

\* C1: when an upload completes, the node removed and replaced by the committed
\* image is the placeholder carrying that upload's id, and no node with another
\* id is removed.
C1_CommitReplacesOwnPlaceholder ==
  [][\A u \in Uploads :
       UploadCommit(u) =>
         /\ \A b \in Blocks(editor) : b.id # uploads[u].image.id => b \in Blocks(editor')
         /\ uploads[u].image \notin Blocks(editor')]_vars

\* C2: once the upload has failed, the node of that upload is no longer in the
\* Uploading state, and no error of onUpload went unhandled.
C2_FailedUploadLeavesUploading ==
  \A u \in Uploads :
    uploads[u].pc = "failed" =>
      /\ "onUpload" \notin unhandled
      /\ \A b \in Blocks(editor) : b.id = uploads[u].image.id => ~IsUploading(b)

\* C3: the completion of an upload that was in flight when the page was
\* unmounted leaves the Document as it was.
C3_CommitAfterUnmountIsNoOp ==
  [][\A u \in Uploads :
       UploadCommit(u) /\ ~mounted => editor'.children = editor.children]_vars

RECURSIVE Flatten(_)
Flatten(batches) ==
  IF batches = <<>> THEN <<>> ELSE Head(batches) \o Flatten(Tail(batches))

\* the saved operations end with upload u's insertion: the placeholder, then at
\* most the removal the commit made, then the committed image
EndsWithInsertionOf(u) ==
  LET ops == Flatten(editor.history.undos)
      n == Len(ops)
  IN /\ uploads[u].pc = "done"
     /\ n >= 2
     /\ ops[n].type = "insert_node"
     /\ ops[n].node = CommittedImage(uploads[u].image, u)
     /\ \E k \in {n - 2, n - 1} :
          /\ k >= 1
          /\ ops[k].type = "insert_node" /\ ops[k].node = uploads[u].image
          /\ \A j \in (k + 1)..(n - 1) : ops[j].type = "remove_node"

\* C4: after the placeholder and the commit, with no other edit in between, one
\* undo() restores the Document onUpload started from.
C4_ImageInsertionIsOneUndoStep ==
  [][\A u \in Uploads :
       Undo /\ EndsWithInsertionOf(u) => editor'.children = uploads[u].D]_vars

\* C5: no serialized image node in storage has a non-null data-src.
C5_StorageHoldsNoPreview ==
  storage.has =>
    \A i \in 1..Len(storage.content) :
      Property(storage.content[i], "data-src").t \in {"undefined", "null"}

WritingChange(ops) == \E i \in 1..Len(ops) : ops[i] # "set_selection"

\* C6: a write of onChange that fails is caught: no error leaves onChange, value
\* is the new Document, the operations are flushed so that the next handler
\* starts clean, and storage keeps what it held; a write that succeeds stores the
\* then-current Document.
C6_PersistFailureIsSwallowed ==
  [][WritingChange(changeOps') =>
       /\ "onChange" \notin unhandled'
       /\ value' = editor'.children
       /\ editor'.operations = <<>>
       /\ \/ persist' = "caught" /\ storage' = storage
          \/ persist' = "stored" /\ storage' = Content(JSONStringify(editor'.children))]_vars

C6_WriteFailed ==
  /\ WritingChange(changeOps)
  /\ persist = "caught"
  /\ value = editor.children
  /\ storage # Content(JSONStringify(value))
  /\ edits > 0

C8_ElementIdsUnique ==
  \A i, j \in 1..Len(editor.children) :
    i # j => editor.children[i].id # editor.children[j].id

\* C9: onChange writes to storage exactly when the change holds an operation
\* other than set_selection: a change of selection updates only leaves storage
\* alone, any other attempts to store the serialization of the new value.
C9_WritesExactlyOnASTChange ==
  [][changeOps' # <<>> =>
       IF WritingChange(changeOps')
       THEN \/ persist' = "stored" /\ storage' = Content(JSONStringify(value'))
            \/ persist' = "caught" /\ storage' = storage
       ELSE storage' = storage /\ persist' = persist]_vars

C9_SelectionChangeAfterWrite ==
  /\ changeOps = <<"set_selection">>
  /\ persist = "caught"
  /\ storage # Content(JSONStringify(value))

\* C10: a scroll does not open the list that hideElementsList has hidden.
C10_ScrollNeverReopens ==
  [][Scroll /\ ~elementsListOpen => ~elementsListOpen']_vars

====
